---- MODULE Spec2Model ----
(***************************************************************************)
(* Automated backup scheduling of ExpenseFlow (src/server.js, issue #462). *)
(*                                                                         *)
(* initializeBackupScheduling registers four cron tasks: the daily, weekly *)
(* and monthly backup callbacks and the retention cleanup callback.  The   *)
(* callbacks are async functions: each runs to its await, and is resumed   *)
(* when the awaited promise settles.  backupService (createDatabaseBackup, *)
(* logBackup, applyRetentionPolicy) is not part of src/: the Backup Log    *)
(* and the Retention Engine are modelled from the specification.           *)
(***************************************************************************)
EXTENDS Naturals, Sequences, FiniteSets

\* ------------------------------------------------------------- bounds
MaxFirings == 2       \* backup trigger firings in one behaviour
MaxSweeps  == 2       \* cleanup trigger firings in one behaviour
MaxDaily   == 10      \* daily entries of the largest initial log
MaxWeekly  == 6       \* weekly entries of the largest initial log
MaxMonthly == 5       \* monthly entries of the largest initial log
FailEvery  == 3       \* every third entry of a history with failures is Failed

\* -------------------------------------------------- program constants
KeepDaily  == 7       \* "retains last 7 days"
KeepWeekly == 4       \* "retains last 4 weeks"

Tiers == {"daily", "weekly", "monthly"}
Tasks == Tiers \cup {"cleanup"}
ExportErrors == {"disk full", "dump timed out"}
LogWriteError == "log write failed"
\* How a call of backupService.logBackup ends: it appends, it throws, or it
\* returns a promise that rejects (the callbacks never await it).
LogOutcomes == {"ok", "throw", "reject"}

VARIABLES
  log,         \* the Backup Log: sequence of entries
  artifacts,   \* destinations that exist in storage
  runs,        \* backup callback invocations: id -> record
  sweeps,      \* cleanup callback invocations: id -> record
  delReq,      \* delete requests issued to storage: destination -> count
  registered,  \* cron tasks registered with the scheduler
  alive,       \* the process is running
  reported,    \* number of errors handed to the process-level handlers
  quota        \* trigger firings a behaviour may hold: [fires, sweeps]

vars == <<log, artifacts, runs, sweeps, delReq, registered, alive, reported, quota>>

\* ------------------------------------------------------ the Backup Log
\* The object literal the callbacks hand to logBackup after a successful export.
SuccessEntry(tier, result) ==
  [type |-> tier, size |-> result.size, status |-> "success",
   destination |-> result.destination]

\* The object literal the callbacks hand to logBackup from their catch block.
FailedEntry(tier, msg) ==
  [type |-> tier, status |-> "failed", error |-> msg]

\* Backup Log append: the entry is stamped by the log (the callbacks pass no
\* timestamp) and starts not reclaimed.  Stamps are strictly increasing.
Stamp(entry, ts) ==
  IF entry.status = "success"
    THEN [type |-> entry.type, status |-> entry.status, size |-> entry.size,
          destination |-> entry.destination, ts |-> ts, reclaimed |-> FALSE]
    ELSE [type |-> entry.type, status |-> entry.status, error |-> entry.error,
          ts |-> ts, reclaimed |-> FALSE]

logBackup(lg, entry) == Append(lg, Stamp(entry, Len(lg) + 1))

\* Backup Log markReclaimed: flips the flag of one entry, removes nothing.
markReclaimed(lg, ts) ==
  [i \in 1..Len(lg) |->
     IF lg[i].ts = ts THEN [lg[i] EXCEPT !.reclaimed = TRUE] ELSE lg[i]]

IsSuccess(e) == e.status = "success"

\* ------------------------------------------------- the backup callbacks
\* A catch block that reports the error on the console and logs no entry.
CatchBlockSilent(lg, tier, msg, o) ==
  [log |-> lg, logFails |-> 0, unhandled |-> 0, pc |-> "done"]

\* The catch block of a backup callback: one logBackup call with the failed
\* entry.  o is how that call ends.  A throw leaves the async callback with a
\* rejected promise; a rejected (never awaited) logBackup promise is unhandled.
CatchBlock(lg, tier, msg, o) ==
  CASE o = "ok"     -> [log |-> logBackup(lg, FailedEntry(tier, msg)),
                        logFails |-> 0, unhandled |-> 0, pc |-> "done"]
    [] o = "reject" -> [log |-> lg, logFails |-> 1, unhandled |-> 1, pc |-> "done"]
    [] o = "throw"  -> [log |-> lg, logFails |-> 1, unhandled |-> 1, pc |-> "escaped"]

\* The rest of the try block once createDatabaseBackup has resolved: logBackup
\* with the success entry, inside the try, so that a throw of logBackup runs the
\* catch block with the log's error.
TryBlock(lg, tier, result, o1, o2) ==
  CASE o1 = "ok"     -> [log |-> logBackup(lg, SuccessEntry(tier, result)),
                         logFails |-> 0, unhandled |-> 0, pc |-> "done"]
    [] o1 = "reject" -> [log |-> lg, logFails |-> 1, unhandled |-> 1, pc |-> "done"]
    [] o1 = "throw"  ->
         LET c == CatchBlock(lg, tier, LogWriteError, o2)
         IN  [c EXCEPT !.logFails = c.logFails + 1]

\* process.on('unhandledRejection'): console.error only, the process goes on.
unhandledRejection(running) == running

Started == DOMAIN runs
Swept == DOMAIN sweeps
InFlight(tier) == {r \in Started : runs[r].tier = tier /\ runs[r].pc = "export"}

\* A cron trigger of a backup tier fires: the callback starts and awaits
\* createDatabaseBackup.  Nothing records that a run of the tier is in flight.
Fire(tier) ==
  /\ alive
  /\ tier \in registered
  /\ Cardinality(Started) < quota.fires
  /\ Cardinality(Started) + Cardinality(Swept) < quota.total
  /\ LET id == Cardinality(Started) + 1
     IN  runs' = [r \in Started \cup {id} |->
                    IF r = id
                      THEN [tier |-> tier, pc |-> "export", export |-> "pending",
                            size |-> 0, error |-> "", at |-> 0, appended |-> 0,
                            logFails |-> 0]
                      ELSE runs[r]]
  /\ UNCHANGED <<log, artifacts, sweeps, delReq, registered, alive, reported, quota>>

DailyFire   == Fire("daily")
WeeklyFire  == Fire("weekly")
MonthlyFire == Fire("monthly")

Destination(id) == <<"run", id>>
\* The size the exporter reports: one per export.
Size(id) == id + 1

\* createDatabaseBackup resolves with {size, destination}: the artifact exists,
\* and the callback runs on to its end.
ExportResolved ==
  \E id \in Started, o1 \in LogOutcomes, o2 \in LogOutcomes :
    /\ alive
    /\ runs[id].pc = "export"
    /\ LET result == [size |-> Size(id), destination |-> Destination(id)]
           after  == TryBlock(log, runs[id].tier, result, o1, o2)
       IN  /\ log' = after.log
           /\ artifacts' = artifacts \cup {Destination(id)}
           /\ runs' = [runs EXCEPT ![id] =
                         [@ EXCEPT !.pc = after.pc, !.export = "ok", !.size = Size(id),
                                   !.at = Len(log) + 1,
                                   !.appended = Len(after.log) - Len(log),
                                   !.logFails = after.logFails]]
           /\ reported' = reported + after.unhandled
           /\ alive' = IF after.unhandled > 0 THEN unhandledRejection(alive) ELSE alive
    /\ UNCHANGED <<sweeps, delReq, registered, quota>>

\* createDatabaseBackup rejects with an error: no artifact, the catch block runs.
ExportRejected ==
  \E id \in Started, msg \in ExportErrors, o \in LogOutcomes :
    /\ alive
    /\ runs[id].pc = "export"
    /\ LET after == CatchBlock(log, runs[id].tier, msg, o)
       IN  /\ log' = after.log
           /\ runs' = [runs EXCEPT ![id] =
                         [@ EXCEPT !.pc = after.pc, !.export = "failed", !.error = msg,
                                   !.at = Len(log) + 1,
                                   !.appended = Len(after.log) - Len(log),
                                   !.logFails = after.logFails]]
           /\ reported' = reported + after.unhandled
           /\ alive' = IF after.unhandled > 0 THEN unhandledRejection(alive) ELSE alive
    /\ UNCHANGED <<artifacts, sweeps, delReq, registered, quota>>

\* ------------------------------------------------ the Retention Engine
\* Monthly handled like weekly: a keep count where none is meant.
PolicyMonthlyAsWeekly(tier) ==
  CASE tier = "daily"   -> [finite |-> TRUE, keep |-> KeepDaily]
    [] tier = "weekly"  -> [finite |-> TRUE, keep |-> KeepWeekly]
    [] tier = "monthly" -> [finite |-> TRUE, keep |-> KeepWeekly]

\* Keep counts one too small: the last 6 days, the last 3 weeks.
PolicyKeepsOneLess(tier) ==
  CASE tier = "daily"   -> [finite |-> TRUE,  keep |-> KeepDaily - 1]
    [] tier = "weekly"  -> [finite |-> TRUE,  keep |-> KeepWeekly - 1]
    [] tier = "monthly" -> [finite |-> FALSE, keep |-> 0]

\* Keep counts one too large: the last 8 days, the last 5 weeks.
PolicyKeepsOneMore(tier) ==
  CASE tier = "daily"   -> [finite |-> TRUE,  keep |-> KeepDaily + 1]
    [] tier = "weekly"  -> [finite |-> TRUE,  keep |-> KeepWeekly + 1]
    [] tier = "monthly" -> [finite |-> FALSE, keep |-> 0]

\* Retention per tier: daily keeps the last 7, weekly the last 4, monthly is
\* kept indefinitely.
Policy(tier) ==
  CASE tier = "daily"   -> [finite |-> TRUE,  keep |-> KeepDaily]
    [] tier = "weekly"  -> [finite |-> TRUE,  keep |-> KeepWeekly]
    [] tier = "monthly" -> [finite |-> FALSE, keep |-> 0]

\* Step 1: the Success, non-reclaimed entries of a tier.
Selected(lg, tier) ==
  {i \in 1..Len(lg) :
     lg[i].type = tier /\ IsSuccess(lg[i]) /\ ~lg[i].reclaimed}

Newer(lg, S, i) == {j \in S : lg[j].ts > lg[i].ts}

\* Step 2: in descending timestamp order the first keep entries stay; every
\* entry beyond them is a deletion candidate.  No candidates without a count.
Candidates(lg, tier) ==
  LET S == Selected(lg, tier)
  IN  IF Policy(tier).finite
        THEN {i \in S : Cardinality(Newer(lg, S, i)) >= Policy(tier).keep}
        ELSE {}

\* A set of log positions as a sequence, most recent timestamp first.
RECURSIVE Descending(_, _)
Descending(lg, S) ==
  IF S = {} THEN <<>>
  ELSE LET m == CHOOSE i \in S : \A j \in S : lg[j].ts <= lg[i].ts
       IN  <<m>> \o Descending(lg, S \ {m})

\* The candidates of one sweep: tier by tier, decided from the log it is given.
SweepCandidates(lg) ==
  Descending(lg, Candidates(lg, "daily")) \o
  Descending(lg, Candidates(lg, "weekly")) \o
  Descending(lg, Candidates(lg, "monthly"))

Requests(d) == IF d \in DOMAIN delReq THEN delReq[d] ELSE 0
Request(d) == [x \in DOMAIN delReq \cup {d} |-> Requests(x) + (IF x = d THEN 1 ELSE 0)]

\* An engine that keeps no track of a sweep in flight.
SweepingUntracked == {}

\* The sweeps in flight, which the engine consults before it starts one.
Sweeping == {s \in Swept : sweeps[s].pc = "sweep"}

\* A cleanup callback invocation: where it is, the candidates its sweep decided
\* and the next one to delete, the result counted so far, the log as the sweep
\* was given it, and what the callback printed.
NewSweep(pc, lg) ==
  [pc |-> pc, cands |-> IF pc = "sweep" THEN SweepCandidates(lg) ELSE <<>>,
   pos |-> 1, removed |-> 0, failures |-> 0, given |-> lg, printed |-> 0]

Begin(pc) ==
  /\ alive
  /\ "cleanup" \in registered
  /\ Cardinality(Swept) < quota.sweeps
  /\ Cardinality(Started) + Cardinality(Swept) < quota.total
  /\ LET id == Cardinality(Swept) + 1
     IN  sweeps' = [s \in Swept \cup {id} |->
                      IF s = id THEN NewSweep(pc, log) ELSE sweeps[s]]

\* The cleanup trigger fires: the callback calls applyRetentionPolicy, which
\* reads the log and decides its candidates, and awaits it.
CleanupFire ==
  /\ Sweeping = {}
  /\ Begin("sweep")
  /\ UNCHANGED <<log, artifacts, runs, delReq, registered, alive, reported, quota>>

\* The cleanup trigger fires while a sweep is in flight: the engine starts no
\* second sweep, and the call resolves with nothing removed.
CleanupSkipped ==
  /\ Sweeping # {}
  /\ Begin("skipped")
  /\ UNCHANGED <<log, artifacts, runs, delReq, registered, alive, reported, quota>>

\* A catch block that gives the cleanup schedule up after a failure.
CleanupCatchStops(tasks) == tasks \ {"cleanup"}

\* The catch block of the cleanup callback: console.error, nothing else.
CleanupCatch(tasks) == tasks

\* applyRetentionPolicy rejects (the log cannot be read): the callback's catch
\* block reports it.
CleanupFails ==
  /\ Sweeping = {}
  /\ Begin("caught")
  /\ registered' = CleanupCatch(registered)
  /\ UNCHANGED <<log, artifacts, runs, delReq, alive, reported, quota>>

Pending(s) == sweeps[s].pc = "sweep" /\ sweeps[s].pos <= Len(sweeps[s].cands)

\* A successful delete that forgets to mark the entry reclaimed.
OnDeletedUnmarked(lg, ts) == lg

\* Steps 3 and 4, the delete succeeds: the artifact is gone and the entry is
\* marked reclaimed.
OnDeleted(lg, ts) == markReclaimed(lg, ts)

DeleteOk ==
  \E s \in Swept :
    /\ alive
    /\ Pending(s)
    /\ LET i == sweeps[s].cands[sweeps[s].pos]
       IN  /\ delReq' = Request(log[i].destination)
           /\ artifacts' = artifacts \ {log[i].destination}
           /\ log' = OnDeleted(log, log[i].ts)
    /\ sweeps' = [sweeps EXCEPT ![s] =
                    [@ EXCEPT !.pos = @ + 1, !.removed = @ + 1]]
    /\ UNCHANGED <<runs, registered, alive, reported, quota>>

\* A failed delete that marks the entry reclaimed all the same.
OnDeleteErrorMarks(lg, ts) == markReclaimed(lg, ts)

\* Steps 3 and 4, the delete fails: the entry is left as it is and the failure
\* is counted; the sweep goes on with the next candidate.
OnDeleteError(lg, ts) == lg

DeleteFails ==
  \E s \in Swept :
    /\ alive
    /\ Pending(s)
    /\ LET i == sweeps[s].cands[sweeps[s].pos]
       IN  /\ delReq' = Request(log[i].destination)
           /\ log' = OnDeleteError(log, log[i].ts)
    /\ sweeps' = [sweeps EXCEPT ![s] =
                    [@ EXCEPT !.pos = @ + 1, !.failures = @ + 1]]
    /\ UNCHANGED <<artifacts, runs, registered, alive, reported, quota>>

\* applyRetentionPolicy resolves with {removed, failures}; the callback prints
\* result.removed.
CleanupDone ==
  \E s \in Swept :
    /\ alive
    /\ sweeps[s].pc = "sweep"
    /\ sweeps[s].pos > Len(sweeps[s].cands)
    /\ sweeps' = [sweeps EXCEPT ![s] =
                    [@ EXCEPT !.pc = "done", !.printed = sweeps[s].removed]]
    /\ UNCHANGED <<log, artifacts, runs, delReq, registered, alive, reported, quota>>

\* ------------------------------------------------------- initial states
\* A log as earlier runs left it: n entries of one tier from stamp base + 1 on,
\* every failEvery-th of them Failed (none when failEvery = 0).
InitEntry(tier, k, ts, failEvery) ==
  IF failEvery > 0 /\ k % failEvery = 0
    THEN Stamp(FailedEntry(tier, "disk full"), ts)
    ELSE Stamp(SuccessEntry(tier, [size |-> 1, destination |-> <<"old", ts>>]), ts)

Block(tier, n, base, failEvery) ==
  [k \in 1..n |-> InitEntry(tier, k, base + k, failEvery)]

InitLog(nD, nW, nM, failEvery) ==
  LET m == Block("monthly", nM, 0, failEvery)
      w == Block("weekly", nW, nM, failEvery)
      d == Block("daily", nD, nM + nW, failEvery)
  IN  m \o w \o d

Start(lg, q) ==
  /\ log = lg
  /\ artifacts = {lg[i].destination : i \in {j \in 1..Len(lg) : IsSuccess(lg[j])}}
  /\ runs = <<>>
  /\ sweeps = <<>>
  /\ delReq = <<>>
  /\ registered = Tasks
  /\ alive = TRUE
  /\ reported = 0
  /\ quota = q

\* The scheduler: a fresh log, or one that holds a daily artifact too many.
SchedulerQuota == [fires |-> MaxFirings, sweeps |-> MaxFirings, total |-> MaxFirings]

Init ==
  \E lg \in {InitLog(0, 0, 0, 0), InitLog(KeepDaily + 1, 0, 0, 0)} :
    Start(lg, SchedulerQuota)

\* Retention: long histories of one tier swept with no backup running, and a
\* short history of all tiers swept while backups run.
SweepQuota == [fires |-> 0, sweeps |-> MaxSweeps, total |-> MaxSweeps]
MixedQuota == [fires |-> MaxSweeps - 1, sweeps |-> MaxSweeps, total |-> MaxSweeps + 1]

InitRetention ==
  \/ \E lg \in {InitLog(MaxDaily, 0, 0, 0), InitLog(MaxDaily, 0, 0, FailEvery),
                InitLog(0, MaxWeekly, 0, 0), InitLog(0, MaxWeekly, 0, FailEvery),
                InitLog(0, 0, MaxMonthly, 0),
                InitLog(KeepDaily - 1, KeepWeekly - 1, 1, 0)} :
       Start(lg, SweepQuota)
  \/ Start(InitLog(KeepDaily + 1, KeepWeekly, 1, 0), MixedQuota)

Next ==
  \/ DailyFire
  \/ WeeklyFire
  \/ MonthlyFire
  \/ ExportResolved
  \/ ExportRejected
  \/ CleanupFire
  \/ CleanupSkipped
  \/ CleanupFails
  \/ DeleteOk
  \/ DeleteFails
  \/ CleanupDone

Spec == Init /\ [][Next]_vars

SpecRetention == InitRetention /\ [][Next]_vars

\* ================================================================ claims
Settled == {r \in Started : runs[r].pc # "export"}

\* C1 as stated: every firing whose callback has run to its end appended
\* exactly one entry to the Backup Log.
C1_ExactlyOneEntryPerFiring ==
  \A r \in Settled : runs[r].appended = 1

\* C1, amended: a firing never appends two entries and appends nothing before
\* its export settles; a settled firing none of whose log writes failed appended
\* exactly one entry, of its own tier, at a place of the log no other firing
\* wrote, whether its export succeeded or failed.
C1_OneEntryUnlessLogWriteFails ==
  /\ \A r \in Started :
       /\ runs[r].appended <= 1
       /\ runs[r].pc = "export" => runs[r].appended = 0
  /\ \A r \in Settled :
       runs[r].logFails = 0 =>
         /\ runs[r].appended = 1
         /\ runs[r].at <= Len(log)
         /\ log[runs[r].at].type = runs[r].tier
  /\ \A r1 \in Settled, r2 \in Settled :
       r1 # r2 /\ runs[r1].appended = 1 /\ runs[r2].appended = 1
         => runs[r1].at # runs[r2].at

\* Two firings have settled with every log write succeeding, one after a
\* successful export and one after a failed export, each with its one entry.
C1_Witness ==
  \E r1 \in Settled, r2 \in Settled :
    /\ runs[r1].export = "ok" /\ runs[r1].logFails = 0 /\ runs[r1].appended = 1
    /\ runs[r2].export = "failed" /\ runs[r2].logFails = 0 /\ runs[r2].appended = 1

\* C2 as stated: at most one run of a tier is executing at any time.
C2_AtMostOneRunPerTier ==
  \A tier \in Tiers : Cardinality(InFlight(tier)) <= 1

\* C3 as stated: the entry a run appended matches the outcome of its export:
\* Success with the exporter's size and destination and no error after a
\* successful export, Failed with the export's message and no size or
\* destination after a failed one.
C3_EntryMatchesExport ==
  \A r \in Settled :
    runs[r].appended = 1 =>
      LET e == log[runs[r].at]
      IN  /\ runs[r].export = "ok" =>
               /\ e.status = "success"
               /\ DOMAIN e = {"type", "status", "size", "destination", "ts", "reclaimed"}
               /\ e.size = runs[r].size
               /\ e.destination = Destination(r)
          /\ runs[r].export = "failed" =>
               /\ e.status = "failed"
               /\ DOMAIN e = {"type", "status", "error", "ts", "reclaimed"}
               /\ e.error = runs[r].error

\* C4: whatever runs have failed, the process is alive, the four schedules are
\* registered, and a trigger of each of them still starts its task (while the
\* model's bound on firings leaves room for one).
Room(kind) ==
  /\ Cardinality(Started) + Cardinality(Swept) < quota.total
  /\ IF kind = "cleanup" THEN Cardinality(Swept) < quota.sweeps
                         ELSE Cardinality(Started) < quota.fires

C4_SchedulerSurvivesFailures ==
  /\ alive
  /\ registered = Tasks
  /\ Room("daily") => ENABLED DailyFire /\ ENABLED WeeklyFire /\ ENABLED MonthlyFire
  /\ Room("cleanup") => ENABLED (CleanupFire \/ CleanupSkipped)

\* A daily run failed in its export and was logged as Failed, and a later
\* firing of the daily trigger ran and logged its successful backup.
C4_Witness ==
  \E r1 \in Settled, r2 \in Settled :
    /\ r1 < r2
    /\ runs[r1].tier = "daily" /\ runs[r2].tier = "daily"
    /\ runs[r1].export = "failed"
    /\ runs[r2].export = "ok" /\ runs[r2].appended = 1

\* C10 as stated: a run whose log write failed appended no entry, and the
\* failure reached the process-level handlers.
C10_LogWriteFailureIsNotLogged ==
  \A r \in Settled :
    runs[r].logFails > 0 => runs[r].appended = 0 /\ reported > 0

\* ------------------------------------------------------ retention claims
Real(s) == sweeps[s].pc \in {"sweep", "done"}
\* The sweep after which no other sweep has touched the log.
Latest(s) == Real(s) /\ \A t \in Swept : t > s => ~Real(t)
Finite == {"daily", "weekly"}
KeepOf(tier) == IF tier = "daily" THEN KeepDaily ELSE KeepWeekly
Successes(lg, tier) == {i \in 1..Len(lg) : lg[i].type = tier /\ IsSuccess(lg[i])}
Live(lg, tier) == {i \in Successes(lg, tier) : ~lg[i].reclaimed}
MostRecent(lg, S, n) == {i \in S : Cardinality({j \in S : lg[j].ts > lg[i].ts}) < n}
Excess(n, keep) == IF n > keep THEN n - keep ELSE 0
Tried(s) == {sweeps[s].cands[k] : k \in 1..(sweeps[s].pos - 1)}
Chosen(s) == {sweeps[s].cands[k] : k \in 1..Len(sweeps[s].cands)}

\* C5: no monthly entry is ever a deletion candidate of a sweep, no delete
\* request is issued for a monthly destination, no monthly entry is marked
\* reclaimed, and every monthly artifact is still in storage.
C5_MonthlyNeverDeleted ==
  /\ \A i \in 1..Len(log) :
       log[i].type = "monthly" =>
         /\ ~log[i].reclaimed
         /\ IsSuccess(log[i]) =>
              log[i].destination \in artifacts /\ Requests(log[i].destination) = 0
  /\ \A s \in Swept : \A i \in Chosen(s) : log[i].type # "monthly"

\* A sweep has run to its end over a log that holds more monthly artifacts
\* than the weekly keep count, all of them still in storage.
C5_Witness ==
  /\ \E s \in Swept : sweeps[s].pc = "done"
  /\ Cardinality(Successes(log, "monthly")) > KeepWeekly

\* C6: in a sweep, for a tier with keep count N and S Success, non-reclaimed
\* entries in the log the sweep was given, at most max(0, S - N) candidates are
\* chosen (so at most that many deleted), each of them a Success, non-reclaimed
\* entry of the given log outside its N most recent; with S <= N there is none.
C6_AtMostExcessDeleted ==
  \A s \in Swept : Real(s) =>
    \A tier \in Finite :
      LET lg   == sweeps[s].given
          S    == Live(lg, tier)
          mine == {i \in Chosen(s) : lg[i].type = tier}
      IN  /\ Cardinality(mine) <= Excess(Cardinality(S), KeepOf(tier))
          /\ Cardinality({i \in mine : i \in Tried(s) /\ log[i].reclaimed})
               <= Excess(Cardinality(S), KeepOf(tier))
          /\ mine \subseteq S
          /\ mine \cap MostRecent(lg, S, KeepOf(tier)) = {}
          /\ Cardinality(S) <= KeepOf(tier) => mine = {}

\* A sweep given more daily artifacts than the keep count has deleted exactly
\* the excess.
C6_Witness ==
  \E s \in Swept :
    /\ sweeps[s].pc = "done"
    /\ Cardinality(Live(sweeps[s].given, "daily")) > KeepDaily
    /\ sweeps[s].removed = Cardinality(Live(sweeps[s].given, "daily")) - KeepDaily

\* C7 as stated: when a sweep all of whose deletes succeeded ends, the
\* non-reclaimed Success entries of the daily (weekly) tier are exactly its 7
\* (4) most recent Success entries.
C7_SweepLeavesMostRecent ==
  [][\A s \in Swept :
       (sweeps[s].pc = "sweep" /\ sweeps'[s].pc = "done" /\ sweeps'[s].failures = 0)
         => \A tier \in Finite :
              Live(log', tier) =
                MostRecent(log', Successes(log', tier), KeepOf(tier))]_vars

\* C7, amended: after a sweep all of whose deletes succeeded, among the entries
\* the sweep was given, the non-reclaimed Success entries of the daily (weekly)
\* tier are exactly the 7 (4) most recent Success entries it was given.
C7_SweepLeavesMostRecentGiven ==
  \A s \in Swept :
    (Latest(s) /\ sweeps[s].pc = "done" /\ sweeps[s].failures = 0) =>
      \A tier \in Finite :
        LET lg == sweeps[s].given
        IN  {i \in Live(log, tier) : i <= Len(lg)} =
              MostRecent(lg, Successes(lg, tier), KeepOf(tier))

\* Given 10 daily Success entries, a sweep has ended with every delete
\* succeeding: the 3 oldest are reclaimed and the 7 most recent are not.
C7_Witness ==
  \E s \in Swept :
    LET lg == sweeps[s].given
    IN  /\ Latest(s) /\ sweeps[s].pc = "done" /\ sweeps[s].failures = 0
        /\ Cardinality(Live(lg, "daily")) = KeepDaily + 3
        /\ sweeps[s].removed = 3
        /\ Cardinality(Live(log, "daily")) = KeepDaily

\* One sweep directly after another that ran to its end, with no entry
\* appended to the log between their starts.
InARow(s1, s2) ==
  /\ s2 = s1 + 1
  /\ sweeps[s1].pc = "done"
  /\ Real(s2)
  /\ Len(sweeps[s2].given) = Len(sweeps[s1].given)

\* C8 as stated: the second of two sweeps in a row deletes nothing.
C8_SecondSweepDeletesNothing ==
  \A s1 \in Swept, s2 \in Swept :
    InARow(s1, s2) => sweeps[s2].removed = 0

\* C8, amended: the second of two sweeps in a row has no candidate, so it
\* deletes nothing, when every delete of the first sweep succeeded.
C8_SecondSweepIdleAfterCleanSweep ==
  \A s1 \in Swept, s2 \in Swept :
    (InARow(s1, s2) /\ sweeps[s1].failures = 0) =>
      /\ sweeps[s2].cands = <<>>
      /\ sweeps[s2].removed = 0
      /\ sweeps[s2].failures = 0

\* A sweep that deleted artifacts, all deletes succeeding, was followed in a
\* row by a second sweep, which ran to its end.
C8_Witness ==
  \E s1 \in Swept, s2 \in Swept :
    /\ InARow(s1, s2)
    /\ sweeps[s1].failures = 0 /\ sweeps[s1].removed > 0
    /\ sweeps[s2].pc = "done"

\* C9: a failed delete neither aborts the sweep nor is thrown: the counts add
\* up to the candidates tried, all of them once the sweep has ended; removed
\* counts the tried candidates now reclaimed and failures those left as they
\* were; no entry is reclaimed unless a delete request for its artifact
\* succeeded; and what a sweep could not delete is a candidate of the next.
C9_FailuresAreCountedNotThrown ==
  /\ \A s \in Swept :
       /\ ~Real(s) => sweeps[s].removed = 0 /\ sweeps[s].failures = 0
       /\ Real(s) => sweeps[s].removed + sweeps[s].failures = sweeps[s].pos - 1
       /\ sweeps[s].pc = "done" =>
            /\ sweeps[s].pos - 1 = Len(sweeps[s].cands)
            /\ sweeps[s].printed = sweeps[s].removed
       /\ Latest(s) =>
            /\ sweeps[s].removed = Cardinality({i \in Tried(s) : log[i].reclaimed})
            /\ sweeps[s].failures = Cardinality({i \in Tried(s) : ~log[i].reclaimed})
            /\ \A i \in Chosen(s) \ Tried(s) : ~log[i].reclaimed
  /\ \A i \in 1..Len(log) :
       log[i].reclaimed =>
         /\ IsSuccess(log[i])
         /\ log[i].destination \notin artifacts
         /\ Requests(log[i].destination) >= 1
  /\ \A s1 \in Swept, s2 \in Swept :
       (s2 = s1 + 1 /\ sweeps[s1].pc = "done" /\ Real(s2)) =>
         \A i \in Chosen(s1) : ~sweeps[s2].given[i].reclaimed => i \in Chosen(s2)

\* A sweep of 3 candidates has ended with one delete failing: {removed: 2,
\* failures: 1}.
C9_Witness ==
  \E s \in Swept :
    /\ sweeps[s].pc = "done"
    /\ Len(sweeps[s].cands) = 3
    /\ sweeps[s].removed = 2
    /\ sweeps[s].failures = 1

\* ---------------------------------------------------------------- C11
RECURSIVE Removed(_)
Removed(n) == IF n = 0 THEN 0 ELSE sweeps[n].removed + Removed(n - 1)
Attempts(i) == Cardinality({s \in Swept : i \in Tried(s)})
Reclaimed == {i \in 1..Len(log) : log[i].reclaimed}

====
